---- MODULE Spec2Model ----
(***************************************************************************)
(* NEPHRA / HydrateAI: the toast store (hooks/use-toast), the dashboard    *)
(* drinking simulation (app/dashboard/dashboard-client.tsx) and the rank   *)
(* lookup getHydrationRank (lib/leaderboard-data.ts).                      *)
(***************************************************************************)
EXTENDS Integers, Sequences, FiniteSets, TLC

(* ------------------------------ bounds --------------------------------- *)
\* number of toast() calls explored: by the dashboard, by the toast store
MaxCount == 8
MaxToasts == 3
\* mL drunk in one connected session explored (the goal is 2500)
MaxDrunk == 2700
\* pending "Sync Complete" timeouts explored
MaxSync == 1
\* fields of a server action's data that differ from well-typed data
MaxWrong == 1
\* events logged by DeveloperOptions explored (the log keeps 50)
MaxClock == 53
\* levels handed to getHydrationRank: -LevelsBelow .. MaxLevel
LevelsBelow == 6
MaxLevel == 62
Levels == (0 - LevelsBelow)..MaxLevel

(* ----------------------------- constants ------------------------------- *)
TOAST_LIMIT == 1
HydrationGoal == 2500
BottleCapacity == 750
EVENT_LOG_LIMIT == 50
\* null / undefined; every toast id and every level-up level is >= 1
Null == 0

Min(a, b) == IF a < b THEN a ELSE b
Max(a, b) == IF a > b THEN a ELSE b

VARIABLES
    count,          \* use-toast: id counter of genId
    memoryState,    \* use-toast: [toasts |-> sequence of toasts]
    toastTimeouts,  \* use-toast: ids with a pending removal timer
    lastAction,     \* history: type and toast id of the action last dispatched
    isConnected, hydration, bottleLevel, streak, level, xp, drops, levelUpInfo,
    syncTimers,     \* pending setTimeout callbacks of handleSync
    totalDrunk,     \* history: mL drunk since Connect
    levelUpToasts,  \* history: levels named by the "Level Up!" toasts since Connect
    rankLevel,      \* argument of the getHydrationRank call under test
    rankResult,     \* its result, NoResult before the call
    srv,            \* the last server action call: function, data, flow, result
    motiv,          \* the last getInitialMotivation call: getMotivation, result
    achServer,      \* allAchievements as the server's module evaluation builds it
    achClient,      \* allAchievements as the client's module evaluation builds it
    eventLog,       \* DeveloperOptions: the event log
    logClock        \* history: events logged so far, the new entry's time stamp

toastVars == <<count, memoryState, toastTimeouts, lastAction>>
dashVars == <<isConnected, hydration, bottleLevel, streak, level, xp, drops,
              levelUpInfo, syncTimers, totalDrunk, levelUpToasts>>
rankVars == <<rankLevel, rankResult>>
serverVars == <<srv, motiv>>
achVars == <<achServer, achClient>>
logVars == <<eventLog, logClock>>
\* everything outside the toast store and the dashboard
otherVars == <<rankVars, serverVars, achVars, logVars>>
vars == <<toastVars, dashVars, otherVars>>

(* ============================== use-toast ============================== *)
\* titles of the toasts the application shows, plus one used by update()
Titles == {"NEPHRA Connected", "Level Up!", "Syncing Data...", "Sync Complete"}
UpdateTitles == {"Updated"}

\* count = (count + 1) % Number.MAX_SAFE_INTEGER; the id is count.toString(),
\* an injective rendering, so the number stands for the string.  The callers
\* keep count <= MaxCount, far below 2^53 - 1, where % is the identity.
genId(c) == c + 1

slice(s, n) == SubSeq(s, 1, Min(Len(s), n))

\* { ...t, ...p } for a partial toast p
spread(t, p) ==
    [id    |-> IF "id" \in DOMAIN p THEN p.id ELSE t.id,
     open  |-> IF "open" \in DOMAIN p THEN p.open ELSE t.open,
     title |-> IF "title" \in DOMAIN p THEN p.title ELSE t.title]

\* reduceAdd without the slice
reduceAdd_noSlice(state, action) ==
    [state EXCEPT !.toasts = <<action.toast>> \o @]

\* case "ADD_TOAST": the new toast goes to the front, the list is cut
reduceAdd(state, action) ==
    [state EXCEPT !.toasts = slice(<<action.toast>> \o @, TOAST_LIMIT)]

\* case "UPDATE_TOAST": the toast with the id takes the given properties
reduceUpdate(state, action) ==
    [state EXCEPT !.toasts =
        [i \in 1..Len(@) |->
            IF @[i].id = action.toast.id
            THEN spread(@[i], action.toast) ELSE @[i]]]

\* reduceDismiss closing every toast, whatever the id
reduceDismiss_all(state, action) ==
    [state EXCEPT !.toasts =
        [i \in 1..Len(@) |-> [@[i] EXCEPT !.open = FALSE]]]

\* case "DISMISS_TOAST", the returned state: the toast with the id (every
\* toast when the id is undefined) is closed
reduceDismiss(state, action) ==
    [state EXCEPT !.toasts =
        [i \in 1..Len(@) |->
            IF @[i].id = action.toastId \/ action.toastId = Null
            THEN [@[i] EXCEPT !.open = FALSE] ELSE @[i]]]

\* case "REMOVE_TOAST": the toast with the id (every toast when the id is
\* undefined) is dropped
reduceRemove(state, action) ==
    IF action.toastId = Null
    THEN [state EXCEPT !.toasts = <<>>]
    ELSE [state EXCEPT !.toasts = SelectSeq(@, LAMBDA t : t.id # action.toastId)]

reducer(state, action) ==
    CASE action.type = "ADD_TOAST" -> reduceAdd(state, action)
      [] action.type = "UPDATE_TOAST" -> reduceUpdate(state, action)
      [] action.type = "DISMISS_TOAST" -> reduceDismiss(state, action)
      [] action.type = "REMOVE_TOAST" -> reduceRemove(state, action)

\* addToRemoveQueue with the has() test inverted: no timer is ever set
addToRemoveQueue_inverted(timeouts, state, action) == timeouts

\* the side effect of the DISMISS_TOAST case: addToRemoveQueue sets a timer
\* for the id (or for every listed toast) unless one is already pending
addToRemoveQueue(timeouts, state, action) ==
    IF action.type = "DISMISS_TOAST"
    THEN IF action.toastId # Null
         THEN timeouts \cup {action.toastId}
         ELSE timeouts \cup {state.toasts[i].id : i \in 1..Len(state.toasts)}
    ELSE timeouts

\* dispatch, run with the timer map `timeouts`
dispatch(timeouts, action) ==
    /\ memoryState' = reducer(memoryState, action)
    /\ toastTimeouts' = addToRemoveQueue(timeouts, memoryState, action)
    /\ lastAction' = [type |-> action.type,
                       toastId |-> IF "toast" \in DOMAIN action
                                   THEN action.toast.id ELSE action.toastId]

\* toast(props): a fresh id, then ADD_TOAST of the open toast
toast(title) ==
    /\ count' = genId(count)
    /\ dispatch(toastTimeouts,
                [type |-> "ADD_TOAST",
                 toast |-> [id |-> genId(count), open |-> TRUE, title |-> title]])

\* some component shows a toast
Toast ==
    /\ count < MaxToasts
    /\ \E title \in Titles : toast(title)
    /\ UNCHANGED <<dashVars, otherVars>>

\* the update(props) closure returned by toast(): the id is forced to its own
Update ==
    /\ \E id \in 1..count, title \in UpdateTitles, p \in {0, 1, 2} :
          dispatch(toastTimeouts,
                   [type |-> "UPDATE_TOAST",
                    toast |-> IF p = 0 THEN [id |-> id, title |-> title]
                              ELSE [id |-> id, title |-> title, open |-> (p = 1)]])
    /\ UNCHANGED <<count, dashVars, otherVars>>

\* the dismiss() closure of a toast (also its onOpenChange(false)), or
\* useToast().dismiss(toastId) with an id
DismissId(id) ==
    /\ id \in 1..count
    /\ dispatch(toastTimeouts, [type |-> "DISMISS_TOAST", toastId |-> id])
    /\ UNCHANGED <<count, dashVars, otherVars>>

Dismiss == \E id \in 1..MaxToasts : DismissId(id)

\* useToast().dismiss() without an id
DismissAll ==
    /\ dispatch(toastTimeouts, [type |-> "DISMISS_TOAST", toastId |-> Null])
    /\ UNCHANGED <<count, dashVars, otherVars>>

\* the setTimeout callback of addToRemoveQueue(id)
TimerFire(id) ==
    /\ id \in toastTimeouts
    /\ dispatch(toastTimeouts \ {id}, [type |-> "REMOVE_TOAST", toastId |-> id])
    /\ UNCHANGED <<count, dashVars, otherVars>>

RemoveTimer == \E id \in toastTimeouts : TimerFire(id)

(* ============================== dashboard ============================== *)
DashInit ==
    /\ isConnected = FALSE
    /\ hydration = [current |-> 0, goal |-> HydrationGoal]
    /\ bottleLevel = BottleCapacity
    /\ streak = 0
    /\ level = 1
    /\ xp = 0
    /\ drops = 0
    /\ levelUpInfo = Null
    /\ totalDrunk = 0
    /\ levelUpToasts = <<>>

xpToNextLevel == level * 100

\* toasts the dashboard still owes: one per pending "Sync Complete" timeout,
\* one for a level-up whose effect has not run yet
owedToasts == syncTimers + (IF levelUpInfo # Null THEN 1 ELSE 0)

\* the XP reset to 0 on a level-up
carryOver_reset(newXp, threshold) == 0

\* return newXp - xpToNextLevel
carryOver(newXp, threshold) == newXp - threshold

\* setLevelUpInfo handed the previous level
levelUpInfoFor_prev(prevLevel) == prevLevel

\* const newLevel = prevLevel + 1; setLevelUpInfo(newLevel)
levelUpInfoFor(prevLevel) == prevLevel + 1

\* the interval installed whatever isConnected is
intervalActive_always == TRUE

\* the effect installs the interval only while the bottle is connected
intervalActive == isConnected

\* 50 * (Math.floor(Math.random() * 3) + 1) with Math.floor(...) = r
drankOf(r) == 50 * (r + 1)

\* nextCurrent without the cap
nextCurrent_uncapped(current, goal, drank) == current + drank

\* Math.min(prev.current + drank, prev.goal)
nextCurrent(current, goal, drank) == Min(current + drank, goal)

\* nextBottle without the floor at 0
nextBottle_unclamped(lvl, drank) == lvl - drank

\* Math.max(0, lvl - drank)
nextBottle(lvl, drank) == Max(0, lvl - drank)

\* dropsFor dividing by 100
dropsFor_hundred(drank) == drank \div 100

\* Math.floor(drank / 10)
dropsFor(drank) == drank \div 10

\* one run of the setInterval callback with Math.floor(Math.random() * 3) = r
Tick(r) ==
    LET drank == drankOf(r)
        newXp == xp + drank
    IN  /\ intervalActive
        /\ levelUpInfo = Null
        /\ totalDrunk + drank <= MaxDrunk
        /\ count + owedToasts < MaxCount
        /\ drank > 0
        /\ IF newXp >= xpToNextLevel
           THEN /\ level' = level + 1
                /\ levelUpInfo' = levelUpInfoFor(level)
                /\ xp' = carryOver(newXp, xpToNextLevel)
           ELSE /\ xp' = newXp
                /\ UNCHANGED <<level, levelUpInfo>>
        /\ hydration' = [hydration EXCEPT
                            !.current = nextCurrent(@, hydration.goal, drank)]
        /\ bottleLevel' = nextBottle(bottleLevel, drank)
        /\ drops' = drops + dropsFor(drank)
        /\ totalDrunk' = totalDrunk + drank
        /\ UNCHANGED <<isConnected, streak, syncTimers, levelUpToasts,
                       toastVars, otherVars>>

Drink == \E r \in 0..2 : Tick(r)

\* the effect on levelUpInfo: show the toast, reset to null
LevelUpEffect ==
    /\ levelUpInfo # Null
    /\ count < MaxCount
    /\ toast("Level Up!")
    /\ levelUpToasts' = Append(levelUpToasts, levelUpInfo)
    /\ levelUpInfo' = Null
    /\ UNCHANGED <<isConnected, hydration, bottleLevel, streak, level, xp,
                   drops, syncTimers, totalDrunk, otherVars>>

\* the Connect button, rendered only while disconnected
handleConnect ==
    /\ ~isConnected
    /\ isConnected' = TRUE
    /\ count + owedToasts < MaxCount
    /\ toast("NEPHRA Connected")
    /\ hydration' = [current |-> 0, goal |-> HydrationGoal]
    /\ bottleLevel' = BottleCapacity
    /\ streak' = 5
    /\ level' = 1
    /\ xp' = 0
    /\ drops' = 0
    /\ totalDrunk' = 0
    /\ levelUpToasts' = <<>>
    /\ UNCHANGED <<levelUpInfo, syncTimers, otherVars>>

\* the Sync button, rendered only while connected
handleSync ==
    /\ isConnected
    /\ levelUpInfo = Null
    /\ syncTimers < MaxSync
    /\ count + owedToasts + 1 < MaxCount
    /\ toast("Syncing Data...")
    /\ syncTimers' = syncTimers + 1
    /\ UNCHANGED <<isConnected, hydration, bottleLevel, streak, level, xp,
                   drops, levelUpInfo, totalDrunk, levelUpToasts, otherVars>>

\* the setTimeout callback of handleSync; it is not cancelled on unmount
SyncComplete ==
    /\ syncTimers > 0
    /\ count < MaxCount
    /\ toast("Sync Complete")
    /\ syncTimers' = syncTimers - 1
    /\ UNCHANGED <<isConnected, hydration, bottleLevel, streak, level, xp,
                   drops, levelUpInfo, totalDrunk, levelUpToasts, otherVars>>

\* navigating away and back: the component state is created anew by useState
Remount ==
    /\ levelUpInfo = Null
    /\ isConnected
    /\ isConnected' = FALSE
    /\ hydration' = [current |-> 0, goal |-> HydrationGoal]
    /\ bottleLevel' = BottleCapacity
    /\ streak' = 0
    /\ level' = 1
    /\ xp' = 0
    /\ drops' = 0
    /\ totalDrunk' = 0
    /\ levelUpToasts' = <<>>
    /\ UNCHANGED <<levelUpInfo, syncTimers, toastVars, otherVars>>

\* render: (hydration.current / hydration.goal) * 100; current is a multiple
\* of 50 and the goal 2500, so the quotient is an integer
progress == (hydration.current * 100) \div hydration.goal
waterRemaining == hydration.goal - hydration.current

(* =========================== getHydrationRank ========================== *)
ranks == <<[level |-> 1,  name |-> "Trainee"],
           [level |-> 5,  name |-> "Scout"],
           [level |-> 10, name |-> "Adept"],
           [level |-> 15, name |-> "Hydrator"],
           [level |-> 20, name |-> "Hydro-Hero"],
           [level |-> 25, name |-> "Aqua-Knight"],
           [level |-> 30, name |-> "Master"],
           [level |-> 40, name |-> "Hydration Lord"],
           [level |-> 50, name |-> "Poseidon's Chosen"]>>

\* currentRankFrom comparing with > instead of >=
RECURSIVE currentRankFrom_strict(_, _, _)
currentRankFrom_strict(lvl, i, cur) ==
    IF i > Len(ranks) THEN cur
    ELSE IF lvl > ranks[i].level THEN currentRankFrom_strict(lvl, i + 1, ranks[i])
    ELSE cur

\* the for loop: walk the table from entry i, keep the last entry whose level
\* is reached, stop at the first that is not
RECURSIVE currentRankFrom(_, _, _)
currentRankFrom(lvl, i, cur) ==
    IF i > Len(ranks) THEN cur
    ELSE IF lvl >= ranks[i].level THEN currentRankFrom(lvl, i + 1, ranks[i])
    ELSE cur

\* ranks.findIndex(r => r.name === name), 1-based; 0 when absent
findIndex(name) ==
    IF \E i \in 1..Len(ranks) : ranks[i].name = name
    THEN CHOOSE i \in 1..Len(ranks) :
            /\ ranks[i].name = name
            /\ \A j \in 1..(i - 1) : ranks[j].name # name
    ELSE 0

\* ((level - currentRank.level) / (nextRank.level - currentRank.level)) * 100.
\* Every tier is 4, 5 or 10 levels wide, so the quotient times 100 is an
\* integer and the double arithmetic of the source yields exactly it.
progressOf(lvl, cur, nxt) == ((lvl - cur.level) * 100) \div (nxt.level - cur.level)

\* getHydrationRank taking the last but one entry for the maximum rank too
getHydrationRank_earlyMax(lvl) ==
    LET currentRank == currentRankFrom(lvl, 1, ranks[1])
        currentRankIndex == findIndex(currentRank.name)
    IN  IF currentRankIndex + 1 >= Len(ranks)
        THEN [rank |-> currentRank.name, nextRank |-> "Max Rank", progress |-> 100]
        ELSE [rank |-> currentRank.name,
              nextRank |-> ranks[currentRankIndex + 1].name,
              progress |-> progressOf(lvl, currentRank, ranks[currentRankIndex + 1])]

getHydrationRank(lvl) ==
    LET currentRank == currentRankFrom(lvl, 1, ranks[1])
        currentRankIndex == findIndex(currentRank.name)
    IN  IF currentRankIndex + 1 > Len(ranks)
        THEN [rank |-> currentRank.name, nextRank |-> "Max Rank", progress |-> 100]
        ELSE [rank |-> currentRank.name,
              nextRank |-> ranks[currentRankIndex + 1].name,
              progress |-> progressOf(lvl, currentRank, ranks[currentRankIndex + 1])]

\* no call made yet
NoResult == [rank |-> "", nextRank |-> "", progress |-> 0]

\* a caller evaluates getHydrationRank(rankLevel)
CallGetHydrationRank ==
    /\ rankResult = NoResult
    /\ rankResult' = getHydrationRank(rankLevel)
    /\ UNCHANGED <<rankLevel, toastVars, dashVars, serverVars, achVars, logVars>>

\* the caller moves on to the next level
NextLevel ==
    /\ rankResult # NoResult
    /\ \E l \in Levels : rankLevel' = l
    /\ rankResult' = NoResult
    /\ UNCHANGED <<toastVars, dashVars, serverVars, achVars, logVars>>

(* ============================ server actions =========================== *)
\* what a value handed to a schema field is
Kinds == {"string", "number", "missing"}

\* ProfileSchema: z.object of name, age, gender, weight, healthConditions?
ProfileSchema ==
    [name |-> "string", age |-> "number", gender |-> "string",
     weight |-> "number", healthConditions |-> "string?"]

\* ProfileInsightsInputSchema
ProfileInsightsInputSchema ==
    [name |-> "string", level |-> "number", hydrationRank |-> "string",
     historicalData |-> "string", healthConditions |-> "string?"]

\* the data a client can send for a schema: any kind in any field, explored
\* with up to MaxWrong fields differing from well-typed data
InputsOf(schema) ==
    {d \in [DOMAIN schema -> Kinds] :
        Cardinality({f \in DOMAIN schema :
                        d[f] # (IF schema[f] = "string?" THEN "string"
                                ELSE schema[f])}) <= MaxWrong}

\* what getHydrationRecommendationAction is called with
ProfileInputs == InputsOf(ProfileSchema)

\* what getProfileInsightsAction is called with
InsightsInputs == InputsOf(ProfileInsightsInputSchema)

\* an AI flow throws, or resolves to null (no output) or to a result
FlowOutcomes == {"throws", "null", "result A", "result B"}

\* schema.parse(data): throws unless every field has its type, an optional
\* field may be missing
parse(schema, data) ==
    IF \A f \in DOMAIN schema :
          IF schema[f] = "string?" THEN data[f] \in {"string", "missing"}
          ELSE data[f] = schema[f]
    THEN [threw |-> FALSE, value |-> data]
    ELSE [threw |-> TRUE, value |-> data]

\* the try block: parse, await the flow on the validated data, return its
\* result; an exception of either leaves the block at once
tryBlock(schema, data, flow) ==
    IF parse(schema, data).threw
    THEN [threw |-> TRUE, value |-> "null", flowCalled |-> FALSE]
    ELSE IF flow = "throws"
         THEN [threw |-> TRUE, value |-> "null", flowCalled |-> TRUE]
         ELSE [threw |-> FALSE, value |-> flow, flowCalled |-> TRUE]

\* the exception passed on to the caller
catchNull_rethrow(attempt) == attempt

\* catch (error) { console.error(...); return null; }
catchNull(attempt) ==
    IF attempt.threw
    THEN [attempt EXCEPT !.threw = FALSE, !.value = "null"]
    ELSE attempt

serverAction(schema, data, flow) == catchNull(tryBlock(schema, data, flow))

getHydrationRecommendationAction ==
    /\ \E data \in ProfileInputs, flow \in FlowOutcomes :
          srv' = [fn |-> "getHydrationRecommendationAction",
                  data |-> data, flow |-> flow,
                  result |-> serverAction(ProfileSchema, data, flow)]
    /\ UNCHANGED <<motiv, toastVars, dashVars, rankVars, achVars, logVars>>

getProfileInsightsAction ==
    /\ \E data \in InsightsInputs, flow \in FlowOutcomes :
          srv' = [fn |-> "getProfileInsightsAction",
                  data |-> data, flow |-> flow,
                  result |-> serverAction(ProfileInsightsInputSchema, data, flow)]
    /\ UNCHANGED <<motiv, toastVars, dashVars, rankVars, achVars, logVars>>

\* getMotivation throws, or resolves to null or to a message
MotivationOutcomes ==
    {[kind |-> k, title |-> "", message |-> ""] : k \in {"throws", "null"}}
    \cup {[kind |-> "value", title |-> "Great start!", message |-> "Sip by sip."],
          [kind |-> "value", title |-> "Keep it up!", message |-> "One more glass."]}

\* the message returned when the AI gave none (its emoji left out)
FallbackMotivation ==
    [title |-> "Welcome Back!",
     message |-> "Let's get hydrated today and keep the streak alive!"]

\* getInitialMotivation returning whatever getMotivation resolved to
initialMotivation_unchecked(outcome) ==
    IF outcome.kind = "throws"
    THEN [threw |-> FALSE, isNull |-> FALSE,
          title |-> FallbackMotivation.title, message |-> FallbackMotivation.message]
    ELSE [threw |-> FALSE, isNull |-> outcome.kind = "null",
          title |-> outcome.title, message |-> outcome.message]

\* try { result = await getMotivation(input); if (result) return result;
\*       throw new Error(...) } catch (error) { return fallback }
initialMotivation(outcome) ==
    IF outcome.kind = "value"
    THEN [threw |-> FALSE, isNull |-> FALSE,
          title |-> outcome.title, message |-> outcome.message]
    ELSE [threw |-> FALSE, isNull |-> FALSE,
          title |-> FallbackMotivation.title, message |-> FallbackMotivation.message]

getInitialMotivation ==
    /\ \E outcome \in MotivationOutcomes :
          motiv' = [called |-> TRUE, outcome |-> outcome,
                    result |-> initialMotivation(outcome)]
    /\ UNCHANGED <<srv, toastVars, dashVars, rankVars, achVars, logVars>>

ServerInit ==
    /\ srv = [fn |-> "none", data |-> <<>>, flow |-> "null",
              result |-> [threw |-> FALSE, value |-> "null", flowCalled |-> FALSE]]
    /\ motiv = [called |-> FALSE,
                outcome |-> [kind |-> "null", title |-> "", message |-> ""],
                result |-> [threw |-> FALSE, isNull |-> FALSE,
                            title |-> "", message |-> ""]]

(* ============================= achievements ============================ *)
leaderboardData ==
    <<
       [id |-> 1, rank |-> 1, name |-> "Joan Clarke", level |-> 28],
       [id |-> 2, rank |-> 2, name |-> "Alan Turing", level |-> 26],
       [id |-> 3, rank |-> 3, name |-> "Grace Hopper", level |-> 24],
       [id |-> 4, rank |-> 4, name |-> "David J. Malan", level |-> 23],
       [id |-> 5, rank |-> 5, name |-> "Ada Lovelace", level |-> 22],
       [id |-> 6, rank |-> 6, name |-> "Duo", level |-> 21],
       [id |-> 7, rank |-> 7, name |-> "Steve", level |-> 20],
       [id |-> 8, rank |-> 8, name |-> "Rubber Ducky", level |-> 19],
       [id |-> 9, rank |-> 9, name |-> "Donald Knuth", level |-> 18],
       [id |-> 10, rank |-> 10, name |-> "Margaret Hamilton", level |-> 17]
    >>

allAchievementsList ==
    <<
       [id |-> 1, title |-> "First Sip"],
       [id |-> 2, title |-> "Half-Litre Hero"],
       [id |-> 3, title |-> "Daily Goal Crusher"],
       [id |-> 4, title |-> "Hydration Rookie"],
       [id |-> 5, title |-> "H2O Pro"],
       [id |-> 6, title |-> "Liquid Legend"],
       [id |-> 7, title |-> "HydraMaster"],
       [id |-> 8, title |-> "3-Day Streaker"],
       [id |-> 9, title |-> "Weekly Winner"],
       [id |-> 10, title |-> "Month of Flow"],
       [id |-> 11, title |-> "Iron Will"],
       [id |-> 12, title |-> "365 Days of Clarity"],
       [id |-> 13, title |-> "Perfect Pour"],
       [id |-> 14, title |-> "Right on Time"],
       [id |-> 15, title |-> "Speed Sipper"],
       [id |-> 16, title |-> "Even Flow"],
       [id |-> 17, title |-> "Adaptive Athlete"],
       [id |-> 18, title |-> "Summer Survivor"],
       [id |-> 19, title |-> "Winter Warrior"],
       [id |-> 20, title |-> "Festival Flow"],
       [id |-> 21, title |-> "Boss Battle Victor"],
       [id |-> 22, title |-> "Hydration Marathoner"],
       [id |-> 23, title |-> "Midnight Mirage"],
       [id |-> 24, title |-> "Double Hydra"],
       [id |-> 25, title |-> "One-Sip Wonder"],
       [id |-> 26, title |-> "Quantum Sip"],
       [id |-> 27, title |-> "Dehydration Slayer"],
       [id |-> 28, title |-> "Bottle Buddy"]
    >>

\* the status with the threshold itself counted as achieved
achievedFor_inclusive(achId, userId) == (achId * 3 + userId * 5) % 10 >= 3

\* achieved: (ach.id * 3 + user.id * 5) % 10 > 3
achievedFor(achId, userId) == (achId * 3 + userId * 5) % 10 > 3

\* allAchievementsList.map(ach => ({...ach, achieved: ...})) for one user
achievementsOf(user) ==
    [k \in 1..Len(allAchievementsList) |->
        [id |-> allAchievementsList[k].id,
         title |-> allAchievementsList[k].title,
         achieved |-> achievedFor(allAchievementsList[k].id, user.id)]]

\* one call of the reduce callback: acc[user.id] = ...; return acc
reduceStep(acc, user) ==
    [u \in (DOMAIN acc) \cup {user.id} |->
        IF u = user.id THEN achievementsOf(user) ELSE acc[u]]

\* the reduce before its first call: no user done, acc = {}
AchInit ==
    /\ achServer = [done |-> 0, acc |-> <<>>]
    /\ achClient = [done |-> 0, acc |-> <<>>]

\* the module is evaluated once in the server bundle ...
EvaluateOnServer ==
    /\ achServer.done < Len(leaderboardData)
    /\ achServer' = [done |-> achServer.done + 1,
                     acc |-> reduceStep(achServer.acc,
                                        leaderboardData[achServer.done + 1])]
    /\ UNCHANGED <<achClient, toastVars, dashVars, rankVars, serverVars, logVars>>

\* ... and once in the client bundle
EvaluateOnClient ==
    /\ achClient.done < Len(leaderboardData)
    /\ achClient' = [done |-> achClient.done + 1,
                     acc |-> reduceStep(achClient.acc,
                                        leaderboardData[achClient.done + 1])]
    /\ UNCHANGED <<achServer, toastVars, dashVars, rankVars, serverVars, logVars>>

(* =============================== event log ============================= *)
\* An entry is "[time] event"; the model keeps its time as the number of the
\* event and leaves the label out: no operation on the log reads an entry.

\* the new entry put in front, nothing dropped
nextEventLog_unbounded(prev, entry) == <<entry>> \o prev

\* [entry, ...prev].slice(0, 50)
nextEventLog(prev, entry) == slice(<<entry>> \o prev, EVENT_LOG_LIMIT)

\* useState<string[]>([])
LogInit ==
    /\ eventLog = <<>>
    /\ logClock = 0

\* the eventLogInterval callback, every 2 seconds while mounted
LogEvent ==
    /\ logClock < MaxClock
    /\ logClock' = logClock + 1
    /\ eventLog' = nextEventLog(eventLog, logClock + 1)
    /\ UNCHANGED <<toastVars, dashVars, rankVars, serverVars, achVars>>

\* DeveloperOptions unmounted (intervals cleared) and mounted again
LogRemount ==
    /\ eventLog # <<>>
    /\ eventLog' = <<>>
    /\ UNCHANGED <<logClock, toastVars, dashVars, rankVars, serverVars, achVars>>

(* ============================ specifications =========================== *)
ToastInit ==
    /\ count = 0
    /\ memoryState = [toasts |-> <<>>]
    /\ toastTimeouts = {}
    /\ lastAction = [type |-> "NONE", toastId |-> Null]

Init ==
    /\ ToastInit
    /\ DashInit
    /\ syncTimers = 0
    /\ rankLevel = 1
    /\ rankResult = NoResult
    /\ ServerInit
    /\ AchInit
    /\ LogInit

\* the dashboard component and the toasts it shows
Next ==
    \/ handleConnect
    \/ Drink
    \/ LevelUpEffect
    \/ handleSync
    \/ SyncComplete
    \/ Remount

Spec == Init /\ [][Next]_vars

\* effects run: React runs the level-up effect after the render that set
\* levelUpInfo
FairSpec == Spec /\ WF_vars(LevelUpEffect)

\* the toast store under its callers and its removal timers
NextToast ==
    \/ Toast
    \/ Update
    \/ Dismiss
    \/ DismissAll
    \/ RemoveTimer

SpecToast == Init /\ [][NextToast]_vars

\* timers fire: every pending removal timer eventually runs its callback
FairSpecToast == SpecToast /\ \A id \in 1..MaxToasts : WF_vars(TimerFire(id))

\* getHydrationRank applied to every level of Levels
InitRank ==
    /\ ToastInit
    /\ DashInit
    /\ syncTimers = 0
    /\ rankLevel \in Levels
    /\ rankResult = NoResult
    /\ ServerInit
    /\ AchInit
    /\ LogInit

NextRank ==
    \/ CallGetHydrationRank
    \/ NextLevel

SpecRank == InitRank /\ [][NextRank]_vars

\* the server actions and the dashboard page's getInitialMotivation
NextServer ==
    \/ getHydrationRecommendationAction
    \/ getProfileInsightsAction
    \/ getInitialMotivation

SpecServer == Init /\ [][NextServer]_vars

\* the two evaluations of the leaderboard-data module
NextAchievements ==
    \/ EvaluateOnServer
    \/ EvaluateOnClient

SpecAchievements == Init /\ [][NextAchievements]_vars

\* the profile page's DeveloperOptions component
NextLog ==
    \/ LogEvent
    \/ LogRemount

SpecLog == Init /\ [][NextLog]_vars


(* ================================ claims =============================== *)
InList(id) == \E i \in 1..Len(memoryState.toasts) : memoryState.toasts[i].id = id

\* the toast with the id is listed, closed, and its removal is queued
Dismissed(id) ==
    /\ id \in toastTimeouts
    /\ \E i \in 1..Len(memoryState.toasts) :
          memoryState.toasts[i].id = id /\ ~memoryState.toasts[i].open

\* C1: the toast list never holds more than TOAST_LIMIT = 1 toast.
ToastLimit == Len(memoryState.toasts) <= TOAST_LIMIT

\* an ADD_TOAST arrived while the list was already full
ToastLimitReached ==
    /\ Len(memoryState.toasts) = TOAST_LIMIT
    /\ count >= 2
    /\ lastAction.type = "ADD_TOAST"

\* the step closes the toast with the id and changes nothing else of the list
DismissFrame(id) ==
    LET old == memoryState.toasts
        new == memoryState'.toasts
    IN  /\ Len(new) = Len(old)
        /\ \A i \in 1..Len(old) :
              IF old[i].id = id
              THEN new[i] = [old[i] EXCEPT !.open = FALSE]
              ELSE new[i] = old[i]

\* the step takes the dismissed toast with the id out of the list
DismissedLeaves(id) == Dismissed(id) /\ ~InList(id)'

\* C2 as stated: DISMISS_TOAST with an id only closes that toast, and the
\* dismissed toast leaves the list only through REMOVE_TOAST.
DismissOnlyRemoveEvicts ==
    [][\A id \in 1..MaxToasts :
          /\ DismissId(id) => DismissFrame(id)
          /\ DismissedLeaves(id) => lastAction'.type = "REMOVE_TOAST"]_vars

\* C2 amended: DISMISS_TOAST with an id only closes that toast (length, order
\* and every other toast unchanged), and the dismissed toast leaves the list
\* only through REMOVE_TOAST or through an ADD_TOAST that pushes it out.
DismissOnlyCloses ==
    [][\A id \in 1..MaxToasts :
          /\ DismissId(id) => DismissFrame(id)
          /\ DismissedLeaves(id) =>
                \/ lastAction'.type = "REMOVE_TOAST"
                \/ /\ lastAction'.type = "ADD_TOAST"
                   /\ Len(memoryState.toasts) = TOAST_LIMIT]_vars

\* a listed toast has just been dismissed by its id and is still listed
DismissedInList ==
    \E id \in 1..MaxToasts :
       /\ lastAction = [type |-> "DISMISS_TOAST", toastId |-> id]
       /\ Dismissed(id)

\* C3: a toast dismissed while listed is eventually out of the list, and the
\* timer callback deletes its entry of toastTimeouts and dispatches
\* REMOVE_TOAST for the id, after which no toast with the id is listed.
DismissedEventuallyRemoved ==
    /\ \A id \in 1..MaxToasts :
          (/\ InList(id)
           /\ lastAction.type = "DISMISS_TOAST"
           /\ lastAction.toastId \in {id, Null}) ~> ~InList(id)
    /\ [][\A id \in 1..MaxToasts :
             TimerFire(id) =>
                /\ id \notin toastTimeouts'
                /\ ~InList(id)'
                /\ lastAction' = [type |-> "REMOVE_TOAST", toastId |-> id]]_vars

\* the timer of a shown toast has fired: entry deleted, toast gone
TimerRemoved ==
    \E id \in 1..count :
       /\ lastAction = [type |-> "REMOVE_TOAST", toastId |-> id]
       /\ id \notin toastTimeouts
       /\ memoryState.toasts = <<>>

\* C4: in a connected session 10 * drops is the total mL drunk since Connect
\* (every drink of d mL adds floor(d / 10) drops).
DropsMatchDrunk == isConnected => 10 * drops = totalDrunk

\* drops kept counting after the hydration goal was passed
DropsPastGoal == isConnected /\ totalDrunk > HydrationGoal /\ drops > 250

\* the table of ranks as the documentation gives it
RankTable == <<<<1, "Trainee">>, <<5, "Scout">>, <<10, "Adept">>,
               <<15, "Hydrator">>, <<20, "Hydro-Hero">>, <<25, "Aqua-Knight">>,
               <<30, "Master">>, <<40, "Hydration Lord">>,
               <<50, "Poseidon's Chosen">>>>

\* the entry with the highest required level <= lvl; the first below level 1
TierOf(lvl) ==
    IF lvl < RankTable[1][1] THEN 1
    ELSE CHOOSE i \in 1..Len(RankTable) :
            /\ RankTable[i][1] <= lvl
            /\ \A j \in 1..Len(RankTable) :
                  RankTable[j][1] <= lvl => RankTable[j][1] <= RankTable[i][1]

\* C5: rank is the name of the entry with the highest required level <= level
\* (Trainee below level 1) and nextRank the name of the entry right after it.
RankIsHighestReached ==
    rankResult # NoResult =>
       /\ rankResult.rank = RankTable[TierOf(rankLevel)][2]
       /\ TierOf(rankLevel) < Len(RankTable) =>
             rankResult.nextRank = RankTable[TierOf(rankLevel) + 1][2]
       /\ rankLevel < 1 => rankResult.rank = "Trainee"

\* a level exactly on a tier boundary has been ranked
RankedOnBoundary ==
    /\ rankLevel = 25
    /\ rankResult.rank = "Aqua-Knight"
    /\ rankResult.nextRank = "Master"

\* C6: from level 50 on the result is Poseidon's Chosen / Max Rank / 100, and
\* below level 50 nextRank is never Max Rank.
MaxRankFromFifty ==
    rankResult # NoResult =>
       /\ rankLevel >= 50 =>
             rankResult = [rank |-> "Poseidon's Chosen",
                           nextRank |-> "Max Rank", progress |-> 100]
       /\ rankLevel < 50 => rankResult.nextRank # "Max Rank"

\* a level above 50 has been ranked
RankedAboveFifty == rankLevel > 50 /\ rankResult.nextRank = "Max Rank"

HydrationWithinGoal ==
    /\ [](/\ 0 <= hydration.current
          /\ hydration.current <= hydration.goal
          /\ hydration.goal = 2500
          /\ 0 <= progress /\ progress <= 100
          /\ waterRemaining >= 0)
    /\ [][\A r \in 0..2 :
             Tick(r) =>
                hydration'.current =
                   IF hydration.current + 50 * (r + 1) > 2500
                   THEN 2500 ELSE hydration.current + 50 * (r + 1)]_vars
    /\ [][(isConnected /\ isConnected') =>
             hydration'.current >= hydration.current]_vars

\* more than the goal was drunk and current stands at the goal
GoalCapped == hydration.current = hydration.goal /\ totalDrunk > hydration.goal

IdleWhileDisconnected ==
    /\ [](~isConnected =>
             /\ hydration.current = 0
             /\ bottleLevel = 750
             /\ xp = 0
             /\ level = 1
             /\ drops = 0)
    /\ [][~isConnected => ~(\E r \in 0..2 : Tick(r))]_vars

\* disconnected again after a session that showed toasts
DisconnectedAfterSession == ~isConnected /\ count >= 2 /\ totalDrunk = 0


\* C11: a tick with drunk amount d levels up by exactly 1 and carries the
\* extra XP over when xp + d >= level * 100, and otherwise only adds d to xp;
\* hence xp + 50 * level * (level - 1) is the total mL drunk since Connect.
XpCarriedOver ==
    /\ [](xp + 50 * level * (level - 1) = totalDrunk)
    /\ [][\A r \in 0..2 :
             Tick(r) =>
                IF xp + 50 * (r + 1) >= level * 100
                THEN /\ level' = level + 1
                     /\ xp' = xp + 50 * (r + 1) - level * 100
                ELSE /\ level' = level
                     /\ xp' = xp + 50 * (r + 1)]_vars

\* a level-up has just carried extra XP into the new level
LevelUpWithCarry == levelUpInfo # Null /\ level >= 3 /\ xp > 0

\* C12: the toasts "Level Up!" shown since Connect name the levels 2, 3, ...
\* reached, one toast per level-up and none without one (the last level-up
\* may still wait for its effect, levelUpInfo holding the new level); every
\* level-up is followed by its toast, after which levelUpInfo is null again.
LevelUpToastOnce ==
    /\ [](/\ levelUpInfo # Null => levelUpInfo = level
          /\ levelUpToasts =
                [i \in 1..(level - 1 - (IF levelUpInfo # Null THEN 1 ELSE 0))
                    |-> i + 1])
    /\ \A n \in 2..(MaxDrunk \div 100) :
          (levelUpInfo = n) ~>
             (/\ levelUpInfo = Null
              /\ levelUpToasts # <<>>
              /\ levelUpToasts[Len(levelUpToasts)] = n
              /\ memoryState.toasts # <<>>
              /\ memoryState.toasts[1].title = "Level Up!")

\* the effect has shown the toast of the third level-up
LevelUpToastShown ==
    /\ levelUpInfo = Null
    /\ levelUpToasts = <<2, 3, 4>>
    /\ level = 4
    /\ lastAction.type = "ADD_TOAST"
    /\ memoryState.toasts[1].title = "Level Up!"

\* the data that satisfy ProfileSchema
ValidProfile ==
    {d \in [{"name", "age", "gender", "weight", "healthConditions"} -> Kinds] :
        /\ d.name = "string" /\ d.age = "number"
        /\ d.gender = "string" /\ d.weight = "number"
        /\ d.healthConditions # "number"}

\* the data that satisfy ProfileInsightsInputSchema
ValidInsightsInput ==
    {d \in [{"name", "level", "hydrationRank", "historicalData",
             "healthConditions"} -> Kinds] :
        /\ d.name = "string" /\ d.level = "number"
        /\ d.hydrationRank = "string" /\ d.historicalData = "string"
        /\ d.healthConditions # "number"}

SrvValid ==
    IF srv.fn = "getHydrationRecommendationAction"
    THEN srv.data \in ValidProfile
    ELSE srv.data \in ValidInsightsInput

\* C13: getHydrationRecommendationAction and getProfileInsightsAction never
\* throw: when validation fails or the flow throws they return null, when
\* validation fails the flow is not called, and otherwise they return
\* exactly what the flow resolved to.
ServerActionsNeverThrow ==
    srv.fn # "none" =>
        /\ ~srv.result.threw
        /\ (~SrvValid \/ srv.flow = "throws") => srv.result.value = "null"
        /\ ~SrvValid => ~srv.result.flowCalled
        /\ (SrvValid /\ srv.flow # "throws") =>
              /\ srv.result.flowCalled
              /\ srv.result.value = srv.flow

FlowFailureReturnsNull ==
    /\ srv.fn = "getProfileInsightsAction"
    /\ srv.data \in ValidInsightsInput
    /\ srv.flow = "throws"
    /\ srv.result.flowCalled
    /\ srv.result.value = "null"

\* C14: getInitialMotivation always resolves and never throws: to the AI's
\* message when getMotivation resolves to one, and to the fixed fallback
\* titled "Welcome Back!" when getMotivation throws or resolves to null.
MotivationAlwaysResolves ==
    motiv.called =>
        /\ ~motiv.result.threw
        /\ ~motiv.result.isNull
        /\ motiv.outcome.kind = "value" =>
              /\ motiv.result.title = motiv.outcome.title
              /\ motiv.result.message = motiv.outcome.message
        /\ motiv.outcome.kind \in {"throws", "null"} =>
              /\ motiv.result.title = "Welcome Back!"
              /\ motiv.result.message =
                    "Let's get hydrated today and keep the streak alive!"

NullMotivationFallsBack ==
    /\ motiv.called
    /\ motiv.outcome.kind = "null"
    /\ motiv.result.title = "Welcome Back!"

\* what one evaluation has built is, for every user done, the 28
\* achievements in master-list order, each achieved iff
\* (a.id * 3 + u.id * 5) mod 10 > 3
BuiltByFormula(ev) ==
    /\ DOMAIN ev.acc = {leaderboardData[i].id : i \in 1..ev.done}
    /\ \A u \in DOMAIN ev.acc :
          /\ Len(ev.acc[u]) = 28
          /\ \A k \in 1..28 :
                /\ ev.acc[u][k].id = allAchievementsList[k].id
                /\ ev.acc[u][k].title = allAchievementsList[k].title
                /\ ev.acc[u][k].achieved = ((ev.acc[u][k].id * 3 + u * 5) % 10 > 3)

\* C15: allAchievements is deterministic: achieved is
\* (a.id * 3 + u.id * 5) mod 10 > 3, so the server's and the client's
\* evaluation are identical, and every user id of the leaderboard maps to
\* all 28 achievements in master-list order.
AchievementsDeterministic ==
    /\ BuiltByFormula(achServer)
    /\ BuiltByFormula(achClient)
    /\ (achServer.done = 10 /\ achClient.done = 10) =>
          /\ achServer.acc = achClient.acc
          /\ DOMAIN achServer.acc = 1..10

BothEvaluated ==
    /\ achServer.done = 10
    /\ achClient.done = 10
    /\ achClient.acc[2][1].achieved = FALSE
    /\ achServer.acc[2][2].achieved = TRUE
    /\ achServer.acc[10][28].title = "Bottle Buddy"

\* C16: the event log never holds more than 50 entries; each event puts
\* its entry at the front, the oldest beyond 50 is dropped, and the entries
\* kept stay in their order.
EventLogCapped ==
    /\ [](Len(eventLog) <= 50)
    /\ [][LogEvent =>
            /\ eventLog'[1] = logClock'
            /\ Len(eventLog') = IF Len(eventLog) < 50 THEN Len(eventLog) + 1 ELSE 50
            /\ \A i \in 2..Len(eventLog') : eventLog'[i] = eventLog[i - 1]]_vars

OldestDropped ==
    /\ Len(eventLog) = 50
    /\ logClock > 50
    /\ eventLog[1] = logClock
    /\ eventLog[50] = logClock - 49

====
